---- MODULE Spec2Model ----
(***************************************************************************)
(* Model of the pretty-imports VS Code extension (src/src/extension.ts).   *)
(*                                                                         *)
(* A document is a sequence of tokens: an import declaration, a line       *)
(* break, a line comment, or some other statement.  Strings (module        *)
(* specifiers, prefixes, binding names) are sequences of one-character     *)
(* strings, so that slice, startsWith, length and localeCompare are        *)
(* computed character by character as the code computes them.              *)
(***************************************************************************)
EXTENDS Integers, Sequences, FiniteSets, TLC

(***************************************************************************)
(* Bounds of the model.                                                    *)
(***************************************************************************)
MaxItems == 2      \* pieces of an initial document
MaxTextLen == 12   \* tokens of a document a handler is still run on
MaxSaves == 2      \* save events in one behaviour

(***************************************************************************)
(* Characters and String.prototype.localeCompare.                          *)
(* A character is a UTF-16 code unit, named by itself or, outside ASCII,   *)
(* by its code point.  ICU root collation as Node uses it: strings are     *)
(* compared in canonical decomposition (canonically equivalent strings     *)
(* compare 0, ECMA-262 22.1.3.12); punctuation sorts before letters; an    *)
(* accent is a second-level difference; a letter's case is a third-level   *)
(* difference, lower case first.                                           *)
(***************************************************************************)
Punct == <<"_", "-", ".", "'", "\"", "@", "*", "/", "#", "~">>
Lower == <<"a", "b", "c", "d", "e", "f", "g", "h", "i", "j", "k", "l", "m",
           "n", "o", "p", "q", "r", "s", "t", "u", "v", "w", "x", "y", "z">>
Upper == <<"A", "B", "C", "D", "E", "F", "G", "H", "I", "J", "K", "L", "M",
           "N", "O", "P", "Q", "R", "S", "T", "U", "V", "W", "X", "Y", "Z">>
\* the combining acute accent, and the letters a and e written with it as
\* one code unit
Marks == <<"U+0301">>
Composed == <<"U+00E1", "U+00E9">>

Chars == {Punct[i] : i \in 1..Len(Punct)} \cup {Lower[i] : i \in 1..Len(Lower)}
           \cup {Upper[i] : i \in 1..Len(Upper)}
           \cup {Marks[i] : i \in 1..Len(Marks)}
           \cup {Composed[i] : i \in 1..Len(Composed)}

IndexOf(s, c) == IF \E i \in 1..Len(s) : s[i] = c
                 THEN CHOOSE i \in 1..Len(s) : s[i] = c
                 ELSE 0

\* canonical decomposition of a character
Decomposition ==
  [c \in Chars |->
     IF c = "U+00E1" THEN <<"a", "U+0301">>
     ELSE IF c = "U+00E9" THEN <<"e", "U+0301">>
     ELSE <<c>>]

\* canonical decomposition of a string
Normalize(s) ==
  LET d[k \in 0..Len(s)] == IF k = 0 THEN <<>> ELSE d[k - 1] \o Decomposition[s[k]]
  IN  d[Len(s)]

IsMark(c) == IndexOf(Marks, c) > 0

\* first-level (alphabetic) weight of a character; an accent has none
PrimaryWeight ==
  [c \in Chars |->
     IF IndexOf(Punct, c) > 0 THEN IndexOf(Punct, c)
     ELSE IF IndexOf(Lower, c) > 0 THEN Len(Punct) + IndexOf(Lower, c)
     ELSE IF IndexOf(Upper, c) > 0 THEN Len(Punct) + IndexOf(Upper, c)
     ELSE 0]

\* second-level (accent) weight of a character
SecondaryWeight == [c \in Chars |-> IF IsMark(c) THEN 2 ELSE 1]

\* third-level (case) weight of a character
TertiaryWeight == [c \in Chars |-> IF IndexOf(Upper, c) > 0 THEN 1 ELSE 0]

\* the weights of one level, for the characters that have one
Level(d, w) ==
  LET T(x) == x > 0
  IN  SelectSeq([i \in 1..Len(d) |-> w[d[i]]], T)

\* the sort key of a decomposed string: its first-level weights, its
\* second-level weights and its third-level weights, with a separator below
\* every weight between the levels
SortKeyOf(d) ==
  Level(d, PrimaryWeight) \o <<0>> \o Level(d, SecondaryWeight) \o <<0>>
    \o [i \in 1..Len(d) |-> 1 + TertiaryWeight[d[i]]]

SortKey(s) == SortKeyOf(Normalize(s))

Order(x, y) == IF x < y THEN -1 ELSE IF x > y THEN 1 ELSE 0

\* the first index where two sequences of weights differ (past the
\* shorter one when it is a prefix of the other)
FirstDifference(a, b) ==
  CHOOSE i \in 1..(Len(a) + 1) :
    /\ i > Len(a) \/ i > Len(b) \/ a[i] # b[i]
    /\ \A k \in 1..(i - 1) : k <= Len(b) /\ a[k] = b[k]

ValueAt(a, i) == IF i <= Len(a) THEN a[i] ELSE -1

\* lexicographic comparison of two sequences of weights: -1, 0 or 1
LexCompareAt(a, b, i) == Order(ValueAt(a, i), ValueAt(b, i))

LexCompare(a, b) == LexCompareAt(a, b, FirstDifference(a, b))

localeCompare(a, b) == LexCompare(SortKey(a), SortKey(b))

\* String.prototype.slice(1, -1)
slice(s) == SubSeq(s, 2, Len(s) - 1)

\* String.prototype.startsWith
startsWith(s, p) ==
  /\ Len(p) <= Len(s)
  /\ \A i \in 1..Len(p) : s[i] = p[i]

(***************************************************************************)
(* Array helpers.                                                          *)
(***************************************************************************)
\* Array.prototype.join over token sequences
Join(parts, sep) ==
  LET j[k \in 0..Len(parts)] ==
        IF k = 0 THEN <<>>
        ELSE IF k = 1 THEN parts[1]
        ELSE j[k - 1] \o sep \o parts[k]
  IN  j[Len(parts)]

(***************************************************************************)
(* Configuration.                                                          *)
(***************************************************************************)
\* mutant: the default prefixes without "./" and "../"
DefaultLocalPrefixes_NoRelative ==
  << <<"@", "/">>, <<"~", "/">>, <<"#", "/">>, <<"*", "/">>, <<"s", "r", "c", "/">> >>

DefaultLocalPrefixes ==
  << <<"@", "/">>, <<".", "/">>, <<".", ".", "/">>, <<"~", "/">>,
     <<"#", "/">>, <<"*", "/">>, <<"s", "r", "c", "/">> >>

DefaultConfig ==
  [localPrefixes |-> DefaultLocalPrefixes,
   treatRelativeAsLocal |-> TRUE,
   sortMethod |-> "length-desc"]

SortMethods == {"alphabetical", "length-asc", "length-desc", "length-then-alpha"}

\* a key of the settings: present with a value, or missing
Value(v) == [has |-> TRUE, value |-> v]
Missing(v) == [has |-> FALSE, value |-> v]

\* the settings a workspace may hold; "by-size" is a sortMethod outside the
\* enum
Settings ==
  [localPrefixes : {Missing(<<>>), Value(<< <<"@", "/">> >>)},
   treatRelativeAsLocal : {Missing(FALSE), Value(FALSE)},
   sortMethod : {Missing(""), Value("alphabetical"), Value("length-asc"),
                 Value("length-then-alpha"), Value("by-size")}]

\* no key of the settings is set
DefaultSettings ==
  [localPrefixes |-> Missing(<<>>), treatRelativeAsLocal |-> Missing(FALSE),
   sortMethod |-> Missing("")]

\* config.get(key, default)
ConfigGet(setting, default) == IF setting.has THEN setting.value ELSE default

getOrganizeImportsConfig(settings) ==
  [localPrefixes |-> ConfigGet(settings.localPrefixes, DefaultConfig.localPrefixes),
   treatRelativeAsLocal |->
     ConfigGet(settings.treatRelativeAsLocal, DefaultConfig.treatRelativeAsLocal),
   sortMethod |-> ConfigGet(settings.sortMethod, DefaultConfig.sortMethod)]

(***************************************************************************)
(* Documents.                                                              *)
(***************************************************************************)
\* one named binding: name is the local name, prop the imported name of an
\* aliased binding (empty when there is no alias)
Binding(name, prop) == [name |-> name, prop |-> prop]

\* an import declaration: default binding, namespace binding, named
\* bindings (when hasNamed), and the text of the module specifier
Import(def, ns, hasNamed, named, spec) ==
  [def |-> def, ns |-> ns, hasNamed |-> hasNamed, named |-> named, spec |-> spec]

NoImport == Import(<<>>, <<>>, FALSE, <<>>, <<>>)

\* canon: the declaration is written exactly as the printer writes it
ImportToken(imp, canon) == [t |-> "imp", imp |-> imp, canon |-> canon, id |-> 0]
NewLine == [t |-> "nl", imp |-> NoImport, canon |-> TRUE, id |-> 0]
Comment(id) == [t |-> "cmt", imp |-> NoImport, canon |-> TRUE, id |-> id]
Statement(id) == [t |-> "stmt", imp |-> NoImport, canon |-> TRUE, id |-> id]

IsTrivia(tok) == tok.t \in {"nl", "cmt"}

(***************************************************************************)
(* ts.createSourceFile and the scan of sourceFile.statements.              *)
(***************************************************************************)
\* sourceFile.statements: the positions of the tokens that are statements,
\* in the order of the text
Statements(text) ==
  LET T(j) == ~IsTrivia(text[j])
  IN  SelectSeq([j \in 1..Len(text) |-> j], T)

isImportDeclaration(text, pos) == text[pos].t = "imp"

\* mutant: the loop does not stop at the first statement that is no import
CollectImports_All(text) ==
  LET st == Statements(text)
      T(j) == isImportDeclaration(text, j)
      all == SelectSeq(st, T)
  IN  [k \in 1..Len(all) |-> [imp |-> text[all[k]].imp, pos |-> all[k]]]

\* the loop over sourceFile.statements: push every import declaration, stop
\* at the first statement that is not one.  A node keeps its position.
CollectImports(text) ==
  LET st == Statements(text)
      R == {k \in 0..Len(st) : \A i \in 1..k : isImportDeclaration(text, st[i])}
      n == CHOOSE k \in R : \A q \in R : q <= k
  IN  [k \in 1..n |-> [imp |-> text[st[k]].imp, pos |-> st[k]]]

\* statement.end of the last import pushed, as a count of tokens
LastImportEnd(imports) ==
  IF imports = <<>> THEN 0 ELSE imports[Len(imports)].pos

\* imp.moduleSpecifier.getText().slice(1, -1)
ModuleOf(node) == slice(node.imp.spec)

(***************************************************************************)
(* Classification.                                                         *)
(***************************************************************************)
isRelativePath(m) == startsWith(m, <<".", "/">>) \/ startsWith(m, <<".", ".", "/">>)

matchesPrefix(m, localPrefixes) ==
  \E i \in 1..Len(localPrefixes) : startsWith(m, localPrefixes[i])

\* mutant: a relative path is local whatever treatRelativeAsLocal says
IsLocal_IgnoresFlag(m, config) ==
  isRelativePath(m) \/ matchesPrefix(m, config.localPrefixes)

IsLocal(m, config) ==
  (config.treatRelativeAsLocal /\ isRelativePath(m)) \/ matchesPrefix(m, config.localPrefixes)

LocalGroup(imports, config) ==
  LET T(n) == IsLocal(ModuleOf(n), config) IN SelectSeq(imports, T)

ThirdPartyGroup(imports, config) ==
  LET T(n) == ~IsLocal(ModuleOf(n), config) IN SelectSeq(imports, T)

(***************************************************************************)
(* Sorting.                                                                *)
(***************************************************************************)
\* mutant: length-desc without the alphabetical tie-break
sortImports_NoTieBreak(a, b, sortMethod) ==
  LET aModule == ModuleOf(a)
      bModule == ModuleOf(b)
  IN  CASE sortMethod = "alphabetical" -> localeCompare(aModule, bModule)
        [] sortMethod \in {"length-asc", "length-then-alpha"} ->
             IF Len(aModule) = Len(bModule)
             THEN localeCompare(aModule, bModule)
             ELSE Len(aModule) - Len(bModule)
        [] OTHER -> Len(bModule) - Len(aModule)

sortImports(a, b, sortMethod) ==
  LET aModule == ModuleOf(a)
      bModule == ModuleOf(b)
  IN  CASE sortMethod = "alphabetical" -> localeCompare(aModule, bModule)
        [] sortMethod = "length-asc" ->
             IF Len(aModule) = Len(bModule)
             THEN localeCompare(aModule, bModule)
             ELSE Len(aModule) - Len(bModule)
        [] sortMethod = "length-then-alpha" ->
             IF Len(aModule) - Len(bModule) # 0
             THEN Len(aModule) - Len(bModule)
             ELSE localeCompare(aModule, bModule)
        [] OTHER ->
             IF Len(aModule) = Len(bModule)
             THEN localeCompare(aModule, bModule)
             ELSE Len(bModule) - Len(aModule)

\* mutant: the elements are compared by imported name, not by local name
compareElements_ByImportedName(a, b) ==
  localeCompare(IF a.prop # <<>> THEN a.prop ELSE a.name,
                IF b.prop # <<>> THEN b.prop ELSE b.name)

compareElements(a, b) == localeCompare(a.name, b.name)

\* the comparators handed to Array.prototype.sort
BySortImports(sortMethod) == [fn |-> "sortImports", sortMethod |-> sortMethod]
ByCompareElements == [fn |-> "compareElements", sortMethod |-> ""]

Compare(a, b, by) ==
  IF by.fn = "sortImports" THEN sortImports(a, b, by.sortMethod)
  ELSE compareElements(a, b)

\* Array.prototype.sort(cmp): a stable sort (ECMAScript 2019).  x is put
\* after the last element of sorted that cmp does not order after it.
InsertAt(sorted, x, p) ==
  SubSeq(sorted, 1, p) \o <<x>> \o SubSeq(sorted, p + 1, Len(sorted))

InsertStable(sorted, x, by) ==
  InsertAt(sorted, x,
           Cardinality({j \in 1..Len(sorted) :
                          \E k \in j..Len(sorted) : Compare(sorted[k], x, by) <= 0}))

ArraySort(s, by) ==
  LET ins[k \in 0..Len(s)] ==
        IF k = 0 THEN <<>> ELSE InsertStable(ins[k - 1], s[k], by)
  IN  ins[Len(s)]

\* mutant: of the imports of one module path only the first is kept
SortGroup_Dedup(group, sortMethod) ==
  LET First(k) == \A i \in 1..(k - 1) : ModuleOf(group[i]) # ModuleOf(group[k])
      T(n) == \E k \in 1..Len(group) : group[k] = n /\ First(k)
  IN  ArraySort(SelectSeq(group, T), BySortImports(sortMethod))

SortGroup(group, sortMethod) == ArraySort(group, BySortImports(sortMethod))

\* a node with named bindings is rebuilt with its elements sorted by name;
\* the rebuilt node keeps the position of the node it updates
sortNamedImports(node) ==
  IF node.imp.hasNamed
  THEN [node EXCEPT !.imp.named = ArraySort(node.imp.named, ByCompareElements)]
  ELSE node

(***************************************************************************)
(* printer.printNode(EmitHint.Unspecified, node, sourceFile).              *)
(* The printer writes a node that has a position in sourceFile with the    *)
(* comments the source text holds around that position: the comments of    *)
(* the trivia before the node that follow a line break (all of them at the *)
(* start of the file), each on a line of its own, and the comment that     *)
(* follows the node on its line, with the line break that ends it.         *)
(***************************************************************************)
\* index of the last token before pos that is not trivia (0: none)
PrevToken(text, pos) ==
  LET S == {j \in 1..(pos - 1) : ~IsTrivia(text[j])}
  IN  IF S = {} THEN 0 ELSE CHOOSE j \in S : \A k \in S : k <= j

LeadingComments(text, pos) ==
  LET q == PrevToken(text, pos)
      Own(j) == /\ text[j].t = "cmt"
                /\ (q = 0 \/ \E k \in (q + 1)..(j - 1) : text[k].t = "nl")
      T(tok) == tok.t = "cmt"
      trivia == [k \in 1..(pos - 1 - q) |->
                   IF Own(q + k) THEN text[q + k] ELSE NewLine]
      own == SelectSeq(trivia, T)
  IN  [k \in 1..(2 * Len(own)) |-> IF k % 2 = 1 THEN own[(k + 1) \div 2] ELSE NewLine]

TrailingComments(text, pos) ==
  IF pos + 1 <= Len(text) /\ text[pos + 1].t = "cmt"
  THEN IF pos + 2 <= Len(text) /\ text[pos + 2].t = "nl"
       THEN <<text[pos + 1], NewLine>>
       ELSE <<text[pos + 1]>>
  ELSE <<>>

printNode(node, text) ==
  LeadingComments(text, node.pos)
    \o <<ImportToken(node.imp, TRUE)>>
    \o TrailingComments(text, node.pos)

PrintAll(nodes, text) ==
  Join([k \in 1..Len(nodes) |-> printNode(nodes[k], text)], <<NewLine>>)

(***************************************************************************)
(* organizeImports.                                                        *)
(* fault names the step that fails in this call: "none"; "noparse" (no     *)
(* source file is returned); "parse", "classify", "sort", "print" (the     *)
(* step throws); "log" (outputChannel.appendLine throws).                  *)
(***************************************************************************)
Faults == {"none", "noparse", "parse", "classify", "sort", "print", "log"}

\* what a call returns: undefined ("NoChange"), TextEdit.replace over the
\* tokens [0, end) ("Replace"), or an exception that leaves it ("Throw")
Outcome(kind, end, newText) == [kind |-> kind, end |-> end, newText |-> newText]

NoChange == Outcome("NoChange", 0, <<>>)

Thrown == Outcome("Throw", 0, <<>>)

\* the catch block: it logs the error and returns undefined
Caught(f) == IF f = "log" THEN Thrown ELSE NoChange

\* outputChannel.appendLine(...), then the rest of the call
Log(f, rest) == IF f = "log" THEN Caught(f) ELSE rest

\* thirdParty.map(sortNamedImports), local.map(sortNamedImports)
MapSortNamedImports(nodes) == [k \in 1..Len(nodes) |-> sortNamedImports(nodes[k])]

\* the printed groups, with a blank line between them when neither is empty
NewImportText(sortedThirdParty, sortedLocal, text) ==
  PrintAll(sortedThirdParty, text)
    \o (IF Len(sortedLocal) > 0 /\ Len(sortedThirdParty) > 0
        THEN <<NewLine, NewLine>> ELSE <<>>)
    \o PrintAll(sortedLocal, text)

\* the text of the range [0, lastImportEnd) is compared with the new text
ReplaceIfChanged(text, lastImportEnd, newImportText) ==
  IF SubSeq(text, 1, lastImportEnd) = newImportText
  THEN NoChange
  ELSE Outcome("Replace", lastImportEnd, newImportText)

organizeImports(text, settings, f) ==
  LET config == getOrganizeImportsConfig(settings)
      imports == CollectImports(text)
      thirdParty == SortGroup(ThirdPartyGroup(imports, config), config.sortMethod)
      local == SortGroup(LocalGroup(imports, config), config.sortMethod)
      sortedThirdParty == MapSortNamedImports(thirdParty)
      sortedLocal == MapSortNamedImports(local)
      newImportText == NewImportText(sortedThirdParty, sortedLocal, text)
  IN  IF f = "parse" THEN Caught(f)
      ELSE IF f = "noparse" THEN Log(f, NoChange)
      ELSE IF Len(imports) = 0 THEN Log(f, NoChange)
      ELSE Log(f,
             IF f \in {"classify", "sort", "print"} THEN Caught(f)
             ELSE ReplaceIfChanged(text, LastImportEnd(imports), newImportText))

\* a TextEdit.replace over [0, end) applied to the document
ApplyEdit(text, edit) ==
  IF edit.kind = "Replace"
  THEN edit.newText \o SubSeq(text, edit.end + 1, Len(text))
  ELSE text

(***************************************************************************)
(* The documents and settings a behaviour starts from.                     *)
(***************************************************************************)
Name(c) == <<c>>

ImportA ==   \* import { B, a as c, b } from "zz"
  Import(<<>>, <<>>, TRUE,
         <<Binding(Name("B"), <<>>), Binding(Name("c"), Name("a")),
           Binding(Name("b"), <<>>)>>,
         <<"\"", "z", "z", "\"">>)
ImportB ==   \* import X from "zz"
  Import(Name("X"), <<>>, FALSE, <<>>, <<"\"", "z", "z", "\"">>)
ImportD ==   \* import "./a"
  Import(<<>>, <<>>, FALSE, <<>>, <<"\"", ".", "/", "a", "\"">>)
ImportE ==   \* import * as n from "@/b"
  Import(<<>>, Name("n"), FALSE, <<>>, <<"\"", "@", "/", "b", "\"">>)
ImportF ==   \* import Y from "a*/"
  Import(Name("Y"), <<>>, FALSE, <<>>, <<"\"", "a", "*", "/", "\"">>)

\* the pieces an initial document is made of
Items ==
  { <<ImportToken(ImportA, TRUE), NewLine>>,
    <<ImportToken(ImportB, TRUE), NewLine>>,
    <<ImportToken(ImportD, FALSE), NewLine>>,      \* written without a semicolon
    <<ImportToken(ImportE, TRUE), NewLine>>,
    <<ImportToken(ImportF, TRUE), NewLine>>,
    <<ImportToken(ImportF, TRUE), Comment(1), NewLine>>,   \* import ...; // 1
    <<Comment(2), NewLine>>,                               \* // 2
    <<Statement(1), NewLine, ImportToken(ImportA, TRUE), NewLine>> }

Concat(lines) ==
  LET c[k \in 0..Len(lines)] == IF k = 0 THEN <<>> ELSE c[k - 1] \o lines[k]
  IN  c[Len(lines)]

\* the README's "Before" block
ReadmeImport(def, named, spec) ==
  ImportToken(Import(def, <<>>, named # <<>>, named, spec), TRUE)

Zod == <<"\"", "z", "o", "d", "\"">>
React == <<"\"", "r", "e", "a", "c", "t", "\"">>
UiButton == <<"\"", "@", "/", "c", "o", "m", "p", "o", "n", "e", "n", "t", "s", "/", "u", "i", "/", "b", "u", "t", "t", "o", "n", "\"">>
UiInput == <<"\"", "@", "/", "c", "o", "m", "p", "o", "n", "e", "n", "t", "s", "/", "u", "i", "/", "i", "n", "p", "u", "t", "\"">>
UiCard == <<"\"", "@", "/", "c", "o", "m", "p", "o", "n", "e", "n", "t", "s", "/", "u", "i", "/", "c", "a", "r", "d", "\"">>

ReadmeZ == ReadmeImport(<<>>, <<Binding(<<"z">>, <<>>)>>, Zod)
ReadmeButton == ReadmeImport(<<>>, <<Binding(<<"B", "u", "t", "t", "o", "n">>, <<>>)>>, UiButton)
ReadmeReactDefault == ReadmeImport(<<"R", "e", "a", "c", "t">>, <<>>, React)
ReadmeReactNamed ==
  ReadmeImport(<<>>, <<Binding(<<"c", "r", "e", "a", "t", "e", "C", "o", "n", "t", "e", "x", "t">>, <<>>),
                       Binding(<<"u", "s", "e", "C", "o", "n", "t", "e", "x", "t">>, <<>>),
                       Binding(<<"u", "s", "e", "S", "t", "a", "t", "e">>, <<>>)>>, React)
ReadmeInput == ReadmeImport(<<>>, <<Binding(<<"I", "n", "p", "u", "t">>, <<>>)>>, UiInput)
ReadmeCard == ReadmeImport(<<>>, <<Binding(<<"C", "a", "r", "d">>, <<>>)>>, UiCard)

ReadmeBefore ==
  Join(<< <<ReadmeZ>>, <<ReadmeButton>>, <<ReadmeReactDefault>>,
          <<ReadmeReactNamed>>, <<ReadmeInput>>, <<ReadmeCard>> >>, <<NewLine>>)

Documents ==
  {Concat(lines) : lines \in UNION {[1..n -> Items] : n \in 0..MaxItems}}
    \cup {ReadmeBefore}

(***************************************************************************)
(* State.                                                                  *)
(***************************************************************************)
VARIABLES
  text,           \* the text of the document
  settings,       \* the workspace settings under "organizeImports"
  run,            \* what the last call of organizeImports returned
  seen,           \* the text that call read
  fault,          \* the step that failed in that call ("none": no step did)
  debounceTimer,  \* the save whose timer is armed, 0 when none is
  saves,          \* the save events so far
  active          \* the extension is activated and not yet deactivated

vars == <<text, settings, run, seen, fault, debounceTimer, saves, active>>

NoRun == Outcome("None", 0, <<>>)

Init ==
  /\ text \in Documents
  /\ settings \in Settings
  /\ run = NoRun
  /\ seen = <<>>
  /\ fault = "none"
  /\ debounceTimer = 0
  /\ saves = <<>>
  /\ active = TRUE

(***************************************************************************)
(* The handlers that act on the active editor's document.                  *)
(***************************************************************************)
\* one call of organizeImports on the document
Invoke(F) ==
  /\ Len(text) <= MaxTextLen
  /\ \E f \in F : fault' = f /\ run' = organizeImports(text, settings, f)
  /\ seen' = text

\* "organizeImports.organize": the edit, when there is one, is applied
OrganizeCommandF(F) ==
  /\ Invoke(F)
  /\ text' = ApplyEdit(text, run')
  /\ UNCHANGED <<settings, debounceTimer, saves, active>>

\* "organizeImports.formatShortcut": the same handler under another name
FormatShortcutCommandF(F) ==
  /\ Invoke(F)
  /\ text' = ApplyEdit(text, run')
  /\ UNCHANGED <<settings, debounceTimer, saves, active>>

\* the formatting provider returns the edit and the editor applies it
ProvideDocumentFormattingEditsF(F) ==
  /\ Invoke(F)
  /\ text' = ApplyEdit(text, run')
  /\ UNCHANGED <<settings, debounceTimer, saves, active>>

\* the code action provider returns an action that holds the edit
ProvideCodeActionsF(F) ==
  /\ Invoke(F)
  /\ UNCHANGED <<text, settings, debounceTimer, saves, active>>

OrganizeCommand == OrganizeCommandF({"none"})
FormatShortcutCommand == FormatShortcutCommandF({"none"})
ProvideDocumentFormattingEdits == ProvideDocumentFormattingEditsF({"none"})
ProvideCodeActions == ProvideCodeActionsF({"none"})

Next ==
  \/ OrganizeCommand
  \/ FormatShortcutCommand
  \/ ProvideDocumentFormattingEdits
  \/ ProvideCodeActions

Spec == Init /\ [][Next]_vars

\* the same handlers when a step of organizeImports may fail
OrganizeCommandFaulty == OrganizeCommandF(Faults)
FormatShortcutCommandFaulty == FormatShortcutCommandF(Faults)
ProvideDocumentFormattingEditsFaulty == ProvideDocumentFormattingEditsF(Faults)
ProvideCodeActionsFaulty == ProvideCodeActionsF(Faults)

FaultNext ==
  \/ OrganizeCommandFaulty
  \/ FormatShortcutCommandFaulty
  \/ ProvideDocumentFormattingEditsFaulty
  \/ ProvideCodeActionsFaulty

FaultSpec == Init /\ [][FaultNext]_vars

(***************************************************************************)
(* The comparator on its own: documents of MaxPaths side-effect imports     *)
(* whose module paths are drawn from Paths, organized by the same handlers. *)
(***************************************************************************)
MaxPaths == 3

Quoted(m) == <<"\"">> \o m \o <<"\"">>

\* module paths: of different and of equal length, differing in case, in an
\* accent, and written with the same accents in different code units
Paths ==
  { <<"a", "b">>, <<"a", "B">>, <<"b">>, <<"@", "/", "a">>,
    <<"e">>, <<"U+00E9">>, <<"e", "U+0301">>,
    <<"U+00E9", "a", "U+0301">>, <<"e", "U+0301", "U+00E1">> }

PathImport(m) == <<ImportToken(Import(<<>>, <<>>, FALSE, <<>>, Quoted(m)), TRUE), NewLine>>

PathDocuments ==
  {Concat([k \in 1..MaxPaths |-> PathImport(ms[k])]) : ms \in [1..MaxPaths -> Paths]}

SortInit ==
  /\ text \in PathDocuments
  /\ settings \in {st \in Settings : ~st.localPrefixes.has /\ ~st.treatRelativeAsLocal.has}
  /\ run = NoRun
  /\ seen = <<>>
  /\ fault = "none"
  /\ debounceTimer = 0
  /\ saves = <<>>
  /\ active = TRUE

SortSpec == SortInit /\ [][Next]_vars

(***************************************************************************)
(* Import declarations whose module specifier is no string literal.  The   *)
(* parser takes any expression after "from" (the grammar check that wants  *)
(* a string literal is a later pass): `import Z from bar;` is parsed as an *)
(* ImportDeclaration whose moduleSpecifier is the identifier bar.          *)
(***************************************************************************)
ImportG ==   \* import Z from bar
  Import(Name("Z"), <<>>, FALSE, <<>>, <<"b", "a", "r">>)

MalformedItems ==
  { <<ImportToken(ImportG, TRUE), NewLine>>,
    <<ImportToken(ImportB, TRUE), NewLine>>,
    <<ImportToken(ImportD, FALSE), NewLine>>,
    <<ImportToken(ImportE, TRUE), NewLine>>,
    <<Statement(1), NewLine>> }

MaxMalformedItems == 3

MalformedDocuments ==
  {Concat(lines) : lines \in UNION {[1..n -> MalformedItems] : n \in 0..MaxMalformedItems}}

MalformedInit ==
  /\ text \in MalformedDocuments
  /\ settings \in Settings
  /\ run = NoRun
  /\ seen = <<>>
  /\ fault = "none"
  /\ debounceTimer = 0
  /\ saves = <<>>
  /\ active = TRUE

MalformedSpec == MalformedInit /\ [][Next]_vars

(***************************************************************************)
(* Saving.  Document 1 is the document of text; document 2 is a document   *)
(* of a language the extension does not support.  The editor runs one save *)
(* of a document at a time; saves of different documents overlap.          *)
(***************************************************************************)
SavedDocuments == {1, 2}

languageId(d) == IF d = 1 THEN "typescript" ELSE "plaintext"

supportedLanguages ==
  {"javascript", "typescript", "javascriptreact", "typescriptreact", "vue"}

\* a save: the promise given to event.waitUntil, the edits it resolved
\* with, how far the save is, and the Replace edits applied for it so far
Save(d) ==
  [doc |-> d, promise |-> "pending", edit |-> NoChange, phase |-> "will", applied |-> 0]

\* onWillSaveTextDocument: the handler clears the timer and arms a new one
\* for this event
WillSave(d) ==
  /\ active
  /\ Len(saves) < MaxSaves
  /\ Len(text) <= MaxTextLen
  /\ \A s \in 1..Len(saves) : saves[s].doc = d => saves[s].phase = "done"
  /\ debounceTimer' = Len(saves) + 1
  /\ saves' = Append(saves, Save(d))
  /\ UNCHANGED <<text, settings, run, seen, fault, active>>

\* the timer's callback, 500 ms after the last save event
TimerFires ==
  /\ debounceTimer # 0
  /\ LET s == debounceTimer
         document == saves[s].doc
     IN  IF languageId(document) \in supportedLanguages
         THEN /\ run' = organizeImports(text, settings, "none")
              /\ seen' = text
              /\ fault' = "none"
              /\ saves' = [saves EXCEPT ![s].promise = "resolved", ![s].edit = run']
         ELSE /\ saves' = [saves EXCEPT ![s].promise = "resolved"]
              /\ UNCHANGED <<run, seen, fault>>
  /\ debounceTimer' = 0
  /\ UNCHANGED <<text, settings, active>>

\* the editor stops waiting (the promise is resolved, or its timer was
\* cleared and the editor's own time limit ends the wait), applies the edits
\* it was given and writes the file
FinishWillSave(s) ==
  /\ s \in 1..Len(saves)
  /\ saves[s].phase = "will"
  /\ saves[s].promise = "resolved" \/ debounceTimer # s
  /\ IF saves[s].promise = "resolved" /\ saves[s].edit.kind = "Replace"
     THEN /\ text' = ApplyEdit(text, saves[s].edit)
          /\ saves' = [saves EXCEPT ![s].phase = "saved", ![s].applied = @ + 1]
     ELSE /\ text' = text
          /\ saves' = [saves EXCEPT ![s].phase = "saved"]
  /\ UNCHANGED <<settings, run, seen, fault, debounceTimer, active>>

\* onDidSaveTextDocument: the fallback handler organizes the saved document
PostSave(s) ==
  /\ active
  /\ s \in 1..Len(saves)
  /\ saves[s].phase = "saved"
  /\ IF languageId(saves[s].doc) \in supportedLanguages
     THEN /\ run' = organizeImports(text, settings, "none")
          /\ seen' = text
          /\ fault' = "none"
          /\ text' = ApplyEdit(text, run')
          /\ saves' = [saves EXCEPT ![s].phase = "done",
                                    ![s].applied = IF run'.kind = "Replace" THEN @ + 1 ELSE @]
     ELSE /\ saves' = [saves EXCEPT ![s].phase = "done"]
          /\ UNCHANGED <<text, run, seen, fault>>
  /\ UNCHANGED <<settings, debounceTimer, active>>

SaveInit == Init /\ settings = DefaultSettings

SaveNext ==
  \/ \E d \in SavedDocuments : WillSave(d)
  \/ TimerFires
  \/ \E s \in 1..MaxSaves : FinishWillSave(s)
  \/ \E s \in 1..MaxSaves : PostSave(s)

SaveSpec == SaveInit /\ [][SaveNext]_vars

\* deactivate(): the timer is cleared; the subscriptions of the extension
\* context are disposed, so no handler runs afterwards
Deactivate ==
  /\ active
  /\ active' = FALSE
  /\ debounceTimer' = 0
  /\ UNCHANGED <<text, settings, run, seen, fault, saves>>

DebounceNext ==
  \/ \E d \in SavedDocuments : WillSave(d)
  \/ TimerFires
  \/ \E s \in 1..MaxSaves : FinishWillSave(s)
  \/ \E s \in 1..MaxSaves : PostSave(s)
  \/ Deactivate

\* the documents that are saved while the timer is watched: those with at
\* most one import, with no named bindings (the timer does not look at the
\* text)
MaxDebounceImports == 1

DebounceDocuments ==
  {d \in Documents :
     /\ Cardinality({j \in 1..Len(d) : d[j].t = "imp"}) <= MaxDebounceImports
     /\ \A j \in 1..Len(d) : ~d[j].imp.hasNamed}

DebounceInit == SaveInit /\ text \in DebounceDocuments

\* an armed timer fires, the editor ends every wait and delivers every
\* onDidSaveTextDocument event; nothing makes the user save
DebounceSpec ==
  /\ DebounceInit
  /\ [][DebounceNext]_vars
  /\ WF_vars(TimerFires)
  /\ \A s \in 1..MaxSaves : WF_vars(FinishWillSave(s)) /\ WF_vars(PostSave(s))

(***************************************************************************)
(* Properties.                                                             *)
(***************************************************************************)
\* the last call ran to its end and returned an edit
Replaced == run.kind = "Replace"

\* the import declarations of a text, in its order
ImportsOf(tokens) ==
  LET T(tok) == tok.t = "imp"
      sel == SelectSeq(tokens, T)
  IN  [k \in 1..Len(sel) |-> sel[k].imp]

\* the imports the last call collected: those before the first statement
\* of the text it read that is not an import
LeadingRun ==
  LET S == {j \in 1..Len(seen) : seen[j].t = "stmt"}
      stop == IF S = {} THEN Len(seen) + 1 ELSE CHOOSE j \in S : \A k \in S : j <= k
  IN  ImportsOf(SubSeq(seen, 1, stop - 1))

\* the module path of an import: its specifier without the quotes
PathOf(imp) == SubSeq(imp.spec, 2, Len(imp.spec) - 1)

HasPrefix(m, p) == Len(p) <= Len(m) /\ SubSeq(m, 1, Len(p)) = p

\* the classification rule of the documentation
RuleLocal(m) ==
  LET config == getOrganizeImportsConfig(settings)
  IN  \/ /\ config.treatRelativeAsLocal
         /\ (HasPrefix(m, <<".", "/">>) \/ HasPrefix(m, <<".", ".", "/">>))
      \/ \E i \in 1..Len(config.localPrefixes) : HasPrefix(m, config.localPrefixes[i])

\* what identifies an import statement: module path, form and the set of
\* its named bindings
Identity(imp) ==
  [path |-> PathOf(imp), def |-> imp.def, ns |-> imp.ns, hasNamed |-> imp.hasNamed,
   named |-> {imp.named[i] : i \in 1..Len(imp.named)}]

Count(s, x) == Cardinality({i \in 1..Len(s) : Identity(s[i]) = x})

\* the imports of the replacement text, in its order
Rendered == ImportsOf(run.newText)

\* C1: applying a Replace and organizing again with the same settings
\* returns NoChange
C1_Idempotent ==
  (Replaced /\ text = ApplyEdit(seen, run))
    => organizeImports(text, settings, "none").kind = "NoChange"

\* C2: every collected import is in exactly one group, the local group iff
\* (treatRelativeAsLocal and the path starts with "./" or "../") or the path
\* starts with one of localPrefixes, compared literally
C2_Classification ==
  run.kind \in {"Replace", "NoChange"} =>
    LET config == getOrganizeImportsConfig(settings)
        imports == CollectImports(seen)
        local == LocalGroup(imports, config)
        thirdParty == ThirdPartyGroup(imports, config)
        In(g, n) == \E j \in 1..Len(g) : g[j] = n
    IN  /\ Len(local) + Len(thirdParty) = Len(imports)
        /\ \A k \in 1..Len(imports) :
             /\ In(local, imports[k]) <=> RuleLocal(PathOf(imports[k].imp))
             /\ In(thirdParty, imports[k]) <=> ~RuleLocal(PathOf(imports[k].imp))

C2_Witness ==
  /\ Replaced
  /\ ~getOrganizeImportsConfig(settings).treatRelativeAsLocal
  /\ \E i, j \in 1..Len(LeadingRun) :
       /\ PathOf(LeadingRun[i]) = <<".", "/", "a">> /\ ~RuleLocal(PathOf(LeadingRun[i]))
       /\ PathOf(LeadingRun[j]) = <<"@", "/", "b">> /\ RuleLocal(PathOf(LeadingRun[j]))

C4_Layout ==
  Replaced =>
    LET nt == run.newText
        I == {k \in 1..Len(nt) : nt[k].t = "imp"}
        third == {k \in I : ~RuleLocal(PathOf(nt[k].imp))}
        local == {k \in I : RuleLocal(PathOf(nt[k].imp))}
        blank == {k \in 1..(Len(nt) - 1) : nt[k].t = "nl" /\ nt[k + 1].t = "nl"}
    IN  /\ \A i \in third, j \in local : i < j
        /\ \A i, j \in I : i < j => \E k \in (i + 1)..(j - 1) : nt[k].t = "nl"
        /\ (third # {} /\ local # {}) =>
             /\ Cardinality(blank) = 1
             /\ \A k \in blank : \A i \in third, j \in local : i < k /\ k + 1 < j
        /\ (third = {} \/ local = {}) =>
             /\ blank = {}
             /\ nt[1].t # "nl"
             /\ nt[Len(nt)].t # "nl"

\* C5: the imports of the replacement text are those collected, each as
\* many times as it was collected
C5_Permutation ==
  Replaced =>
    /\ Len(Rendered) = Len(LeadingRun)
    /\ \A i \in 1..Len(LeadingRun) :
         Count(Rendered, Identity(LeadingRun[i])) = Count(LeadingRun, Identity(LeadingRun[i]))

\* two imports of one module path were collected
C5_Witness ==
  /\ Replaced
  /\ \E i, j \in 1..Len(LeadingRun) :
       /\ i # j
       /\ PathOf(LeadingRun[i]) = PathOf(LeadingRun[j])
       /\ LeadingRun[i] # LeadingRun[j]

\* the end of the last import of the leading run of the text read
RunEnd ==
  LET S == {j \in 1..Len(seen) : seen[j].t = "stmt"}
      stop == IF S = {} THEN Len(seen) + 1 ELSE CHOOSE j \in S : \A k \in S : j <= k
      I == {j \in 1..(stop - 1) : seen[j].t = "imp"}
  IN  IF I = {} THEN 0 ELSE CHOOSE j \in I : \A k \in I : k <= j

\* C6: a Replace covers [0, end of the last import of the leading run) and
\* the text from there on is left as it was
C6_Frame ==
  Replaced =>
    /\ run.end = RunEnd
    /\ text # seen =>
         /\ SubSeq(text, 1, Len(run.newText)) = run.newText
         /\ SubSeq(text, Len(run.newText) + 1, Len(text))
              = SubSeq(seen, RunEnd + 1, Len(seen))

\* an edit was applied to a text with an import after another statement
C6_Witness ==
  /\ Replaced
  /\ text # seen
  /\ \E i, j \in 1..Len(seen) : i < j /\ seen[i].t = "stmt" /\ seen[j].t = "imp"

\* the README's "After" block
ReadmeAfter ==
  Join(<< <<ReadmeReactNamed>>, <<ReadmeReactDefault>>, <<ReadmeZ>>, <<>>,
          <<ReadmeButton>>, <<ReadmeCard>>, <<ReadmeInput>> >>, <<NewLine>>)

\* C8: with the default configuration the README's "Before" block is
\* reorganized into its "After" block
C8_Readme ==
  (seen = ReadmeBefore /\ settings = DefaultSettings /\ run.kind # "None")
    => (Replaced /\ run.newText = ReadmeAfter)

\* code units in ascending order
CodeUnits ==
  <<"\"", "#", "'", "*", "-", ".", "/", "@">> \o Upper \o <<"_">> \o Lower \o <<"~">>

CodeUnit == [c \in Chars |-> IndexOf(CodeUnits, c)]

OrdinalCompare(a, b) ==
  LexCompare([i \in 1..Len(a) |-> CodeUnit[a[i]]], [i \in 1..Len(b) |-> CodeUnit[b[i]]])

NamesOf(imp) == [i \in 1..Len(imp.named) |-> imp.named[i].name]

\* C9 as stated: the named bindings are rendered in ordinal order of their
\* display names
C9_Ordinal ==
  Replaced =>
    \A k \in 1..Len(Rendered) :
      \A i, j \in 1..Len(Rendered[k].named) :
        i < j => OrdinalCompare(NamesOf(Rendered[k])[i], NamesOf(Rendered[k])[j]) <= 0

\* C9 as amended: every rendered import is a collected import with the same
\* set of bindings, its named bindings in localeCompare order of their
\* display names; an import without a named-bindings list is unchanged
C9_LocaleOrder ==
  Replaced =>
    \A k \in 1..Len(Rendered) :
      /\ \E c \in 1..Len(LeadingRun) :
           /\ Identity(LeadingRun[c]) = Identity(Rendered[k])
           /\ ~LeadingRun[c].hasNamed => LeadingRun[c] = Rendered[k]
      /\ \A i, j \in 1..Len(Rendered[k].named) :
           i < j => localeCompare(NamesOf(Rendered[k])[i], NamesOf(Rendered[k])[j]) <= 0

\* { B, a as c, b } was rendered as { b, B, a as c }
C9_Witness ==
  /\ Replaced
  /\ \E k \in 1..Len(Rendered) :
       /\ NamesOf(Rendered[k]) = <<Name("b"), Name("B"), Name("c")>>
       /\ Rendered[k].named[3].prop = Name("a")
       /\ \E c \in 1..Len(LeadingRun) :
            NamesOf(LeadingRun[c]) = <<Name("B"), Name("c"), Name("b")>>

\* C7: a call ends in NoChange or Replace, and a call in which a step
\* failed ends in NoChange with the document as it was
C7_NeverThrows ==
  /\ run.kind # "Throw"
  /\ fault # "none" => (run.kind = "NoChange" /\ text = seen)

\* C10: for one save, the pre-save handler and the post-save handler
\* together apply at most one Replace edit to the document
C10_OneEditPerSave ==
  \A s \in 1..Len(saves) : saves[s].applied <= 1

Sign(x) == IF x < 0 THEN -1 ELSE IF x > 0 THEN 1 ELSE 0

\* the imports the last call compared, and the sortMethod it compared by
Compared == CollectImports(seen)

ComparedBy == getOrganizeImportsConfig(settings).sortMethod

\* sortImports is antisymmetric up to sign, 0 on equal arguments and
\* transitive over the imports the last call compared
C11_Consistent ==
  run.kind # "None" =>
    \A a, b, c \in 1..Len(Compared) :
      /\ Sign(sortImports(Compared[a], Compared[b], ComparedBy))
           = -Sign(sortImports(Compared[b], Compared[a], ComparedBy))
      /\ sortImports(Compared[a], Compared[a], ComparedBy) = 0
      /\ (sortImports(Compared[a], Compared[b], ComparedBy) <= 0
            /\ sortImports(Compared[b], Compared[c], ComparedBy) <= 0)
           => sortImports(Compared[a], Compared[c], ComparedBy) <= 0

\* C11: for every sortMethod (an unrecognized one included) sortImports is a
\* consistent ordering of module paths: antisymmetric up to sign, 0 on equal
\* arguments, transitive, and 0 only for imports of the same module path.
C11_TotalOrder ==
  /\ C11_Consistent
  /\ run.kind # "None" =>
       \A a, b \in 1..Len(Compared) :
         sortImports(Compared[a], Compared[b], ComparedBy) = 0
           => ModuleOf(Compared[a]) = ModuleOf(Compared[b])

\* the text of a module specifier is a quoted literal
IsStringLiteral(spec) ==
  /\ Len(spec) >= 2
  /\ spec[1] \in {"\"", "'"}
  /\ spec[Len(spec)] = spec[1]

IsMalformed(tok) == tok.t = "imp" /\ ~IsStringLiteral(tok.imp.spec)

\* the text with every malformed import taken for a statement that is no
\* import
MalformedAsStatements(tokens) ==
  [j \in 1..Len(tokens) |-> IF IsMalformed(tokens[j]) THEN Statement(0) ELSE tokens[j]]

\* C12: an import without a quoted module path is left out of the
\* reorganization and ends the leading run: the call returns what it returns
\* when a statement that is no import stands in its place.
C12_MalformedIsBoundary ==
  run.kind # "None" => run = organizeImports(MalformedAsStatements(seen), settings, "none")

\* the promise of save s waits on a timer that is no longer armed
CancelledPending(s) ==
  /\ s \in 1..Len(saves)
  /\ saves[s].promise = "pending"
  /\ debounceTimer # s

\* a promise whose timer was cleared is never resolved
CancelledStaysPending ==
  [][\A s \in 1..MaxSaves : CancelledPending(s) => CancelledPending(s)']_vars

\* C13: the promise handed to event.waitUntil is resolved in the end for
\* every save event, also when another save event follows within the delay
\* (deactivation of the extension, which clears the timer for good, is set
\* aside).
C13_PromiseResolved ==
  \A s \in 1..MaxSaves :
    (s <= Len(saves)) ~> (~active \/ (s <= Len(saves) /\ saves[s].promise = "resolved"))

\* the settings with treatRelativeAsLocal set to v
WithTreatRelativeAsLocal(v) == [settings EXCEPT !.treatRelativeAsLocal = Value(v)]

\* the module paths of the imports the last call collected
ComparedPaths == {ModuleOf(Compared[k]) : k \in 1..Len(Compared)}

\* C14: with the default localPrefixes a call returns the same for
\* treatRelativeAsLocal true and false; whatever the prefixes, the flag
\* changes the group of a path only when the path is relative and no prefix
\* is a prefix of it.
C14_FlagRedundant ==
  run.kind # "None" =>
    /\ ~settings.localPrefixes.has =>
         /\ run = organizeImports(seen, WithTreatRelativeAsLocal(TRUE), "none")
         /\ run = organizeImports(seen, WithTreatRelativeAsLocal(FALSE), "none")
    /\ \A m \in ComparedPaths :
         IsLocal(m, getOrganizeImportsConfig(WithTreatRelativeAsLocal(TRUE)))
             # IsLocal(m, getOrganizeImportsConfig(WithTreatRelativeAsLocal(FALSE)))
           => /\ isRelativePath(m)
              /\ ~matchesPrefix(m, getOrganizeImportsConfig(settings).localPrefixes)

\* a call with the default prefixes and the flag set to false has put a
\* relative import in the local group, after a third-party import
C14_Witness ==
  /\ run.kind = "Replace"
  /\ ~settings.localPrefixes.has
  /\ settings.treatRelativeAsLocal = Value(FALSE)
  /\ \E i, j \in 1..Len(Rendered) :
       /\ i < j
       /\ ~isRelativePath(PathOf(Rendered[i]))
       /\ ~IsLocal(PathOf(Rendered[i]), getOrganizeImportsConfig(settings))
       /\ isRelativePath(PathOf(Rendered[j]))
       /\ IsLocal(PathOf(Rendered[j]), getOrganizeImportsConfig(settings))

====
